---- MODULE Spec2Model ----
(***************************************************************************)
(* A state-machine model of tab_transformer_pytorch/ft_transformer.py:     *)
(* construction of an FTTransformer, switching it between training and     *)
(* evaluation mode, and the forward pass (FTTransformer.forward,           *)
(* Transformer.forward, DistributionUncertainty.forward).                  *)
(*                                                                         *)
(* Tensors are modelled by their structure: a token tensor is a batch of   *)
(* rows of tokens plus the ordered history of the layer operations applied *)
(* to it, each with the random draw it consumed (0 when it consumed none). *)
(* Two tensors with the same tokens and the same history are the same      *)
(* value for fixed parameters.  Probabilities are percentages.             *)
(***************************************************************************)
EXTENDS Integers, Sequences, FiniteSets, TLC

\* ---------------------------------------------------------------- bounds

MaxCols == 2
MaxCard == 2
MaxDepth == 2
MaxBatch == 2

\* The inputs the constructor is tried on.
SpecExampleCategories == <<3, 5, 2>>
CategoryLists ==
    (UNION {[1..k -> (-1)..MaxCard] : k \in 0..MaxCols}) \cup {SpecExampleCategories}
ContinuousChoices == {0, 2}
SpecialTokenChoices == {0, 2}
DepthChoices == 0..MaxDepth
HeadChoices == {1, 2}
DimOutChoices == {1, 2}
PercentChoices == {0, 50}
\* np.random.random() lies in [0, 1): the draws tried, as percentages.
GateDraws == {0, 75}
\* The noise of torch.randn_like and the masks of nn.Dropout, as labels.
NoiseDraws == {"draw1", "draw2"}
NoDraw == "none"

\* ------------------------------------------------------- python builtins

RECURSIVE Sum(_)
Sum(s) == IF s = <<>> THEN 0 ELSE Head(s) + Sum(Tail(s))

\* AllPositive with n >= 0 for n > 0.
AllNonNegative(s) == \A i \in 1..Len(s) : s[i] >= 0

AllPositive(s) == \A i \in 1..Len(s) : s[i] > 0

\* F.pad(t, (1, 0), value = v): one element v in front of t.
Pad(t, v) == <<v>> \o t

\* t.cumsum(dim = -1): running totals, accumulated left to right.
RECURSIVE CumsumFrom(_, _)
CumsumFrom(acc, t) ==
    IF t = <<>> THEN <<>>
    ELSE <<acc + Head(t)>> \o CumsumFrom(acc + Head(t), Tail(t))

Cumsum(t) == CumsumFrom(0, t)

\* DropLast slicing t[1:] for t[:-1].
DropFirst(t) == SubSeq(t, 2, Len(t))

\* t[:-1]
DropLast(t) == SubSeq(t, 1, Len(t) - 1)

\* The names bound in the module's global scope by its import statements.
ModuleGlobals == {"torch", "F", "nn", "einsum", "rearrange", "repeat"}

----------------------------------------------------------------------------
VARIABLES
    pc,        \* where the program is: "new", "failed", "idle", or a step of forward
    args,      \* the arguments FTTransformer.__init__ was called with
    self,      \* the attributes __init__ has set on the FTTransformer
    training,  \* nn.Module.training of the model and its sub-modules
    call,      \* the arguments of the forward call in flight
    x,         \* the local x of the forward in flight
    attn_out,  \* the local attn_out of Transformer.forward
    post_softmax_attns, \* the local list of Transformer.forward
    layer,     \* index of the layer the loop of Transformer.forward is at
    trace,     \* the steps the forward in flight has executed, in order
    dsu_call,  \* the last invocation of DistributionUncertainty.forward
    outcome,   \* how the last forward call ended
    prev       \* the last returned call, kept while the same inputs are passed again

vars == <<pc, args, self, training, call, x, attn_out, post_softmax_attns,
          layer, trace, dsu_call, outcome, prev>>


\* ------------------------------------------------------------ values

NoTensor == [tok |-> <<>>, hist |-> <<>>]
NoCall == [fn |-> "none", x_categ |-> <<>>, x_numer |-> <<>>,
           return_attn |-> FALSE, t_return_attn |-> FALSE, training |-> FALSE]
NoOutcome == [status |-> "none", err |-> "", shape |-> <<>>, value |-> NoTensor,
              has_attns |-> FALSE, attns |-> <<>>]
NoPrev == [valid |-> FALSE, training |-> FALSE, outcome |-> NoOutcome]
NoDsuCall == [called |-> FALSE, training |-> FALSE, p |-> 0, layer |-> 0,
              input |-> NoTensor, status |-> "none", output |-> NoTensor]
NoArgs == [categories |-> <<>>, num_continuous |-> 0, depth |-> 0, heads |-> 0,
           dim_out |-> 0, num_special_tokens |-> 0, attn_dropout |-> 0,
           ff_dropout |-> 0, p |-> 0]
NoSelf == [attrs |-> {}, num_categories |-> 0, num_unique_categories |-> 0,
           num_special_tokens |-> 0, categories_offset |-> <<>>,
           categorical_embeds |-> 0, num_continuous |-> 0,
           numerical_embedder |-> 0, layers |-> <<>>, to_logits |-> 0]

Raised(e) == [NoOutcome EXCEPT !.status = "raised", !.err = e]

\* ------------------------------------------------- FTTransformer.__init__

\* CategoriesOffset padding with 0, the special tokens forgotten.
CategoriesOffset_NoSpecial(categories, num_special_tokens) ==
    DropLast(Cumsum(Pad(categories, 0)))

\* categories_offset: the cardinalities padded in front with the number of
\* special tokens, accumulated, without the last total.
CategoriesOffset(categories, num_special_tokens) ==
    DropLast(Cumsum(Pad(categories, num_special_tokens)))

\* The two assertions that open __init__: the first that fails, or "".
InitAssertion(categories, num_continuous) ==
    IF ~AllPositive(categories) THEN "number of each category must be positive"
    ELSE IF ~(Len(categories) + num_continuous > 0) THEN "input shape must not be null"
    ELSE ""

\* Transformer.__init__: depth layers, each an Attention, a FeedForward and a
\* DistributionUncertainty.
TransformerLayers(depth, heads, attn_dropout, ff_dropout, p) ==
    [i \in 1..depth |->
        [heads |-> heads, attn_dropout |-> attn_dropout,
         ff_dropout |-> ff_dropout, p |-> p]]

\* The attributes __init__ sets once both assertions have passed.
InitAttributes(a) ==
    LET num_unique_categories == Sum(a.categories)
        total_tokens == num_unique_categories + a.num_special_tokens
        with_categ == num_unique_categories > 0
        with_numer == a.num_continuous > 0
    IN  [attrs |-> {"num_categories", "num_unique_categories", "num_special_tokens",
                    "num_continuous", "cls_token", "transformer", "to_logits"}
                   \cup (IF with_categ THEN {"categories_offset", "categorical_embeds"}
                         ELSE {})
                   \cup (IF with_numer THEN {"numerical_embedder"} ELSE {}),
         num_categories |-> Len(a.categories),
         num_unique_categories |-> num_unique_categories,
         num_special_tokens |-> a.num_special_tokens,
         categories_offset |->
            IF with_categ THEN CategoriesOffset(a.categories, a.num_special_tokens)
            ELSE <<>>,
         categorical_embeds |-> IF with_categ THEN total_tokens ELSE 0,
         num_continuous |-> a.num_continuous,
         numerical_embedder |-> IF with_numer THEN a.num_continuous ELSE 0,
         layers |-> TransformerLayers(a.depth, a.heads, a.attn_dropout,
                                      a.ff_dropout, a.p),
         to_logits |-> a.dim_out]

Construct(a) ==
    /\ pc = "new"
    /\ args' = a
    /\ training' = TRUE
    /\ IF InitAssertion(a.categories, a.num_continuous) # ""
       THEN /\ pc' = "failed"
            /\ self' = NoSelf
            /\ outcome' = Raised("AssertionError")
       ELSE /\ pc' = "idle"
            /\ self' = InitAttributes(a)
            /\ outcome' = NoOutcome
    /\ UNCHANGED <<call, x, attn_out, post_softmax_attns, layer, trace,
                   dsu_call, prev>>

\* ------------------------------------------------ nn.Module.train / eval

SetMode(mode) ==
    /\ pc = "idle"
    /\ training # mode
    /\ training' = mode
    /\ UNCHANGED <<pc, args, self, call, x, attn_out, post_softmax_attns,
                   layer, trace, dsu_call, outcome, prev>>

\* ------------------------------------------------------- tensor values

\* self.cls_token, one row of categorical_embeds, and one scalar through the
\* numerical embedder (x * weights[j] + biases[j]).
ClsToken == [kind |-> "cls", idx |-> 0, val |-> 0]
EmbedToken(id) == [kind |-> "cat", idx |-> id, val |-> 0]
NumToken(j, v) == [kind |-> "num", idx |-> j, val |-> v]

\* t.shape[0] and t.shape[-1] of a batch of rows.
Batch(t) == Len(t)
Width(t) == Len(t[1])

\* x_categ + self.categories_offset, broadcast over the batch.
AddOffset(x_categ, offset) ==
    [r \in 1..Batch(x_categ) |->
        [i \in 1..Len(x_categ[r]) |-> x_categ[r][i] + offset[i]]]

\* self.categorical_embeds(x_categ)
CategoricalEmbeds(ids) ==
    [r \in 1..Batch(ids) |-> [i \in 1..Len(ids[r]) |-> EmbedToken(ids[r][i])]]

\* NumericalEmbedder.forward
NumericalEmbedder(x_numer) ==
    [r \in 1..Batch(x_numer) |->
        [j \in 1..Len(x_numer[r]) |-> NumToken(j, x_numer[r][j])]]

\* torch.cat(xs, dim = 1) of a list of one or two batches
CatTokens(xs) ==
    IF Len(xs) = 1 THEN xs[1]
    ELSE [r \in 1..Batch(xs[1]) |-> xs[1][r] \o xs[2][r]]

\* repeat(self.cls_token, '1 1 d -> b 1 d', b = b), then torch.cat((cls_tokens, x), dim = 1)
PrependCls(t) == [r \in 1..Batch(t) |-> <<ClsToken>> \o t[r]]

\* EmbedInputs appending the numerical tokens before the categorical ones.
EmbedInputs_NumericFirst(s, x_categ, x_numer) ==
    (IF s.num_continuous > 0 THEN <<NumericalEmbedder(x_numer)>> ELSE <<>>)
    \o (IF s.num_unique_categories > 0
        THEN <<CategoricalEmbeds(AddOffset(x_categ, s.categories_offset))>>
        ELSE <<>>)

\* The list xs of FTTransformer.forward.
EmbedInputs(s, x_categ, x_numer) ==
    (IF s.num_unique_categories > 0
     THEN <<CategoricalEmbeds(AddOffset(x_categ, s.categories_offset))>>
     ELSE <<>>)
    \o (IF s.num_continuous > 0 THEN <<NumericalEmbedder(x_numer)>> ELSE <<>>)

\* The token tensor FTTransformer.forward hands to the transformer.
TokenSequence(s, x_categ, x_numer) ==
    [tok |-> PrependCls(CatTokens(EmbedInputs(s, x_categ, x_numer))), hist |-> <<>>]

Ev(op, l) == [op |-> op, layer |-> l]

\* The steps of FTTransformer.forward up to the call of the transformer.
EmbedSteps(s) ==
    (IF s.num_unique_categories > 0
     THEN <<Ev("offset", 0), Ev("categorical_embeds", 0)>> ELSE <<>>)
    \o (IF s.num_continuous > 0 THEN <<Ev("numerical_embedder", 0)>> ELSE <<>>)
    \o <<Ev("cat", 0), Ev("cls", 0)>>

\* The result of a layer operation on t: t with the operation recorded.
Apply(t, op, l, rnd) ==
    [t EXCEPT !.hist = Append(@, [op |-> op, layer |-> l, rnd |-> rnd])]

\* Dropout drawing its mask in evaluation mode too.
Dropout_IgnoresMode(prob, train) == IF prob > 0 THEN NoiseDraws ELSE {NoDraw}

\* nn.Dropout(prob): the masks it can draw; none outside training or at prob 0.
Dropout(prob, train) == IF train /\ prob > 0 THEN NoiseDraws ELSE {NoDraw}

\* attn = sim.softmax(dim = -1) of Attention.forward: shape (b, h, n, n),
\* computed from the layer's input before dropout.
AttnMatrix(l, heads, t) ==
    [layer |-> l, shape |-> <<Batch(t.tok), heads, Width(t.tok), Width(t.tok)>>,
     input |-> t.hist]

\* ----------------------------------------- DistributionUncertainty.forward

\* u is the value of np.random.random(), noise the draws of _reparameterize.
DSU_forward(t, train, p, u, noise) ==
    IF ~train THEN [status |-> "returned", err |-> "", value |-> t]
    ELSE IF "np" \notin ModuleGlobals
         THEN [status |-> "raised", err |-> "NameError", value |-> NoTensor]
    ELSE IF u > p THEN [status |-> "returned", err |-> "", value |-> t]
    ELSE [status |-> "returned", err |-> "", value |-> Apply(t, "dsu", 0, noise)]

\* ---------------------------------------------------------- forward calls

InFlight == pc \in {"attn", "add", "ff", "dsu", "ret", "head"}

\* The call in flight ends (returns or raises): its locals are gone.
EndCall(o) ==
    /\ pc' = "idle"
    /\ outcome' = o
    /\ x' = NoTensor
    /\ attn_out' = NoDraw
    /\ post_softmax_attns' = <<>>
    /\ layer' = 0

\* Transformer.forward up to its loop: the list is empty, the loop is at its
\* first layer if there is one.
EnterTransformer(t) ==
    /\ x' = t
    /\ post_softmax_attns' = <<>>
    /\ attn_out' = NoDraw
    /\ layer' = 1
    /\ pc' = IF Len(self.layers) >= 1 THEN "attn" ELSE "ret"
    /\ outcome' = NoOutcome

\* The last call, when it returned and the call starting now passes the same
\* inputs again.
Remember(fn, x_categ, x_numer) ==
    IF /\ outcome.status = "returned"
       /\ call.fn = fn /\ call.x_categ = x_categ /\ call.x_numer = x_numer
    THEN [valid |-> TRUE, training |-> call.training, outcome |-> outcome]
    ELSE NoPrev

\* ForwardAssertion comparing with <= for ==.
ForwardAssertion_AtMost(s, x_categ) == Width(x_categ) <= s.num_categories

\* assert x_categ.shape[-1] == self.num_categories
ForwardAssertion(s, x_categ) == Width(x_categ) = s.num_categories

\* ForwardResult returning the stack whatever the flag.
ForwardResult_AlwaysStack(logits, shape, attns, return_attn) ==
    [status |-> "returned", err |-> "", shape |-> shape, value |-> logits,
     has_attns |-> TRUE, attns |-> attns]

\* What FTTransformer.forward returns: the logits, and the stack if asked for.
ForwardResult(logits, shape, attns, return_attn) ==
    IF ~return_attn
    THEN [status |-> "returned", err |-> "", shape |-> shape, value |-> logits,
          has_attns |-> FALSE, attns |-> <<>>]
    ELSE [status |-> "returned", err |-> "", shape |-> shape, value |-> logits,
          has_attns |-> TRUE, attns |-> attns]

\* What Transformer.forward returns when it returns: x, and the stack if asked for.
TransformerResult(t, attns, return_attn) ==
    IF ~return_attn
    THEN [status |-> "returned", err |-> "", shape |-> <<Batch(t.tok), Width(t.tok)>>,
          value |-> t, has_attns |-> FALSE, attns |-> <<>>]
    ELSE [status |-> "returned", err |-> "", shape |-> <<Batch(t.tok), Width(t.tok)>>,
          value |-> t, has_attns |-> TRUE, attns |-> attns]

\* self.to_logits(x[:, 0]): the class token's row through the head.
Logits(t) == Apply(Apply(t, "select_cls", 0, NoDraw), "to_logits", 0, NoDraw)

\* FTTransformer.forward, from its assertion to the call of self.transformer.
Forward(x_categ, x_numer, return_attn) ==
    /\ pc = "idle"
    /\ call' = [fn |-> "FTTransformer", x_categ |-> x_categ, x_numer |-> x_numer,
                return_attn |-> return_attn, t_return_attn |-> TRUE,
                training |-> training]
    /\ prev' = Remember("FTTransformer", x_categ, x_numer)
    /\ dsu_call' = NoDsuCall
    /\ IF ~ForwardAssertion(self, x_categ)
       THEN /\ trace' = <<>>
            /\ EndCall(Raised("AssertionError"))
       ELSE /\ trace' = EmbedSteps(self)
            /\ EnterTransformer(TokenSequence(self, x_categ, x_numer))
    /\ UNCHANGED <<args, self, training>>

\* Transformer.forward called on self.transformer directly, on a tensor t.
TransformerForward(t, return_attn) ==
    /\ pc = "idle"
    /\ call' = [fn |-> "Transformer", x_categ |-> t.tok, x_numer |-> <<>>,
                return_attn |-> return_attn, t_return_attn |-> return_attn,
                training |-> training]
    /\ prev' = Remember("Transformer", t.tok, <<>>)
    /\ dsu_call' = NoDsuCall
    /\ trace' = <<>>
    /\ EnterTransformer(t)
    /\ UNCHANGED <<args, self, training>>

\* attn_out, post_softmax_attn = attn(x); post_softmax_attns.append(post_softmax_attn)
LayerAttn ==
    /\ pc = "attn"
    /\ \E m \in Dropout(self.layers[layer].attn_dropout, training) :
           attn_out' = m
    /\ post_softmax_attns' =
           Append(post_softmax_attns, AttnMatrix(layer, self.layers[layer].heads, x))
    /\ trace' = trace \o <<Ev("attn", layer), Ev("append", layer)>>
    /\ pc' = "add"
    /\ UNCHANGED <<args, self, training, call, x, layer, dsu_call, outcome, prev>>

\* x = attn_out + x
LayerResidual ==
    /\ pc = "add"
    /\ x' = Apply(x, "attn", layer, attn_out)
    /\ trace' = Append(trace, Ev("add", layer))
    /\ pc' = "ff"
    /\ UNCHANGED <<args, self, training, call, attn_out, post_softmax_attns,
                   layer, dsu_call, outcome, prev>>

\* x = ff(x) + x
LayerFeedForward ==
    /\ pc = "ff"
    /\ \E m \in Dropout(self.layers[layer].ff_dropout, training) :
           x' = Apply(x, "ff", layer, m)
    /\ trace' = trace \o <<Ev("ff", layer), Ev("add", layer)>>
    /\ pc' = "dsu"
    /\ UNCHANGED <<args, self, training, call, attn_out, post_softmax_attns,
                   layer, dsu_call, outcome, prev>>

\* x = dsu(x), and the loop's step to the next layer
LayerDsu ==
    /\ pc = "dsu"
    /\ \E u \in GateDraws, noise \in NoiseDraws :
         LET r == DSU_forward(x, training, self.layers[layer].p, u, noise)
         IN  /\ dsu_call' = [called |-> TRUE, training |-> training,
                             p |-> self.layers[layer].p, layer |-> layer,
                             input |-> x, status |-> r.status, output |-> r.value]
             /\ trace' = Append(trace, Ev("dsu", layer))
             /\ IF r.status = "raised"
                THEN EndCall(Raised(r.err))
                ELSE /\ x' = r.value
                     /\ layer' = layer + 1
                     /\ pc' = IF layer < Len(self.layers) THEN "attn" ELSE "ret"
                     /\ UNCHANGED <<attn_out, post_softmax_attns, outcome>>
    /\ UNCHANGED <<args, self, training, call, prev>>

\* The end of Transformer.forward: x alone, or x and torch.stack of the list,
\* which raises on an empty list.
TransformerReturn ==
    /\ pc = "ret"
    /\ IF ~call.t_return_attn
       THEN /\ trace' = trace
            /\ EndCall(TransformerResult(x, post_softmax_attns, FALSE))
       ELSE IF post_softmax_attns = <<>>
       THEN /\ trace' = trace
            /\ EndCall(Raised("RuntimeError"))
       ELSE /\ trace' = Append(trace, Ev("stack", 0))
            /\ IF call.fn = "Transformer"
               THEN EndCall(TransformerResult(x, post_softmax_attns, TRUE))
               ELSE /\ pc' = "head"
                    /\ UNCHANGED <<x, attn_out, post_softmax_attns, layer, outcome>>
    /\ UNCHANGED <<args, self, training, call, dsu_call, prev>>

\* FTTransformer.forward after the transformer: x[:, 0], self.to_logits, return.
ToLogits ==
    /\ pc = "head"
    /\ trace' = trace \o <<Ev("select_cls", 0), Ev("to_logits", 0)>>
    /\ EndCall(ForwardResult(Logits(x), <<Batch(x.tok), self.to_logits>>,
                             post_softmax_attns, call.return_attn))
    /\ UNCHANGED <<args, self, training, call, dsu_call, prev>>

\* ------------------------------------------------------------ the inputs

\* The end-to-end scenario of the specification, with the defaults of
\* __init__ for the optional arguments.
Scenario ==
    [categories |-> <<2, 2>>, num_continuous |-> 1, depth |-> 1, heads |-> 2,
     dim_out |-> 1, num_special_tokens |-> 2, attn_dropout |-> 0,
     ff_dropout |-> 0, p |-> 0]

\* The scenario with every choice of columns and special tokens.
StructureArgs ==
    {[Scenario EXCEPT !.categories = c, !.num_continuous = n,
                      !.num_special_tokens = s] :
        c \in CategoryLists, n \in ContinuousChoices, s \in SpecialTokenChoices}

\* The scenario with every choice of depth, heads and output width.
ShapeArgs ==
    {[Scenario EXCEPT !.depth = d, !.heads = h, !.dim_out = o] :
        d \in DepthChoices, h \in HeadChoices, o \in DimOutChoices}

\* The scenario with every choice of depth and of the three probabilities.
RegularizerArgs ==
    {[Scenario EXCEPT !.depth = d, !.attn_dropout = ad, !.ff_dropout = fd, !.p = p] :
        d \in DepthChoices, ad \in PercentChoices, fd \in PercentChoices,
        p \in PercentChoices}

ArgChoices == StructureArgs \cup ShapeArgs \cup RegularizerArgs

\* A batch of categorical codes of width w: each sample holds the lowest
\* (level 0) or the highest (level 1) code of every column.
CategInput(w, levels) ==
    [r \in 1..Len(levels) |->
        [i \in 1..w |->
            IF levels[r] = 0 \/ i > Len(args.categories) THEN 0
            ELSE args.categories[i] - 1]]

\* A batch of continuous values, one row of num_continuous values per sample.
NumerInput(levels) ==
    [r \in 1..Len(levels) |-> [j \in 1..args.num_continuous |-> levels[r]]]

\* A tensor of b samples of one token each, as a caller of the transformer passes.
ExternalTensor(b) ==
    [tok |-> [r \in 1..b |-> <<[kind |-> "ext", idx |-> r, val |-> 0]>>], hist |-> <<>>]

\* The batches tried: of every size, samples alternating between the two levels.
Levels == {[r \in 1..b |-> (r + k) % 2] : b \in 1..MaxBatch, k \in {0, 1}}

\* The widths of x_categ tried: the configured one and its neighbours.
WidthChoices == {w \in {self.num_categories - 1, self.num_categories,
                        self.num_categories + 1} : w >= 0}

Init ==
    /\ pc = "new"
    /\ args = NoArgs
    /\ self = NoSelf
    /\ training = FALSE
    /\ call = NoCall
    /\ x = NoTensor
    /\ attn_out = NoDraw
    /\ post_softmax_attns = <<>>
    /\ layer = 0
    /\ trace = <<>>
    /\ dsu_call = NoDsuCall
    /\ outcome = NoOutcome
    /\ prev = NoPrev

Next ==
    \/ \E a \in ArgChoices : Construct(a)
    \/ \E mode \in BOOLEAN : SetMode(mode)
    \/ \E w \in WidthChoices, levels \in Levels, return_attn \in BOOLEAN :
           Forward(CategInput(w, levels), NumerInput(levels), return_attn)
    \/ \E b \in 1..MaxBatch, return_attn \in BOOLEAN :
           TransformerForward(ExternalTensor(b), return_attn)
    \/ LayerAttn
    \/ LayerResidual
    \/ LayerFeedForward
    \/ LayerDsu
    \/ TransformerReturn
    \/ ToLogits

Spec == Init /\ [][Next]_vars

\* =================================================================== claims

Constructed == pc \notin {"new", "failed"}
NumCateg == Len(args.categories)
Ended == pc = "idle" /\ call.fn # "none"
EndedForward == Ended /\ call.fn = "FTTransformer"

\* C1: DistributionUncertainty.forward returns its input unchanged, and
\* completes normally, whenever the module is in evaluation mode or its
\* probability p is 0, in training mode too.
C1_RegularizerIdentity ==
    (dsu_call.called /\ (~dsu_call.training \/ dsu_call.p = 0))
        => (dsu_call.status = "returned" /\ dsu_call.output = dsu_call.input)

\* C3: for a non-empty list of positive cardinalities c and s special tokens,
\* categories_offset has one entry per column, entry i is s plus the sum of
\* the cardinalities before column i, the entries never decrease, and for
\* [3, 5, 2] with s = 2 they are [2, 5, 10].
C3_CategoriesOffset ==
    (Constructed /\ NumCateg > 0) =>
        LET off == self.categories_offset
            s == args.num_special_tokens
        IN  /\ "categories_offset" \in self.attrs
            /\ Len(off) = NumCateg
            /\ \A i \in 1..NumCateg :
                   off[i] = s + Sum(SubSeq(args.categories, 1, i - 1))
            /\ \A i, j \in 1..NumCateg : i <= j => off[i] <= off[j]
            /\ (args.categories = <<3, 5, 2>> /\ s = 2) => off = <<2, 5, 10>>

C3_Witness ==
    /\ pc = "idle"
    /\ args.categories = <<3, 5, 2>> /\ args.num_special_tokens = 2
    /\ self.categories_offset = <<2, 5, 10>>

\* C4: __init__ fails with an assertion error when some cardinality is <= 0
\* and when there are neither categorical nor continuous columns, before any
\* attribute of the model is created; otherwise, with every cardinality
\* positive and at least one column, it passes validation.
C4_ConstructionValidation ==
    pc # "new" =>
        LET bad == \/ \E i \in 1..NumCateg : args.categories[i] <= 0
                   \/ (NumCateg = 0 /\ args.num_continuous = 0)
            good == /\ \A i \in 1..NumCateg : args.categories[i] > 0
                    /\ NumCateg + args.num_continuous > 0
        IN  /\ bad => /\ pc = "failed"
                      /\ outcome = Raised("AssertionError")
                      /\ self.attrs = {}
            /\ good => /\ pc # "failed"
                       /\ {"cls_token", "transformer", "to_logits"} \subseteq self.attrs

C4_Witness ==
    /\ pc = "failed"
    /\ \E i \in 1..NumCateg : args.categories[i] <= 0
    /\ self.attrs = {}

\* C10: for every column i and every code in [0, cardinality_i), the token
\* id code + categories_offset[i] that forward computes lies in
\* [s, s + sum(cardinalities)), inside the embedding table and outside the
\* special-token slots, and different (column, code) pairs get different ids.
C10_TokenIds ==
    (Constructed /\ NumCateg > 0) =>
        LET off == self.categories_offset
            s == args.num_special_tokens
            pairs == {<<i, code>> \in (1..NumCateg) \X (0..Sum(args.categories)) :
                          code < args.categories[i]}
            id(q) == AddOffset(<<[k \in 1..NumCateg |-> q[2]]>>, off)[1][q[1]]
        IN  /\ self.categorical_embeds = s + Sum(args.categories)
            /\ \A q \in pairs : s <= id(q) /\ id(q) < self.categorical_embeds
            /\ \A q1, q2 \in pairs : id(q1) = id(q2) => q1 = q2
            /\ (InFlight /\ call.fn = "FTTransformer") =>
                   \A r \in 1..Batch(x.tok), t \in 1..Width(x.tok) :
                       x.tok[r][t].kind = "cat" =>
                           /\ s <= x.tok[r][t].idx
                           /\ x.tok[r][t].idx < self.categorical_embeds

C10_Witness ==
    /\ pc = "attn" /\ call.fn = "FTTransformer"
    /\ NumCateg >= 2 /\ args.num_special_tokens > 0
    /\ \E r \in 1..Batch(x.tok) :
           x.tok[r][1 + NumCateg] = EmbedToken(self.categorical_embeds - 1)

\* C2: for every constructed model and every valid input pair,
\* FTTransformer.forward completes and returns logits of shape
\* (batch, dim_out), in training mode as in evaluation mode, whatever the
\* depth and the number of heads.
C2_LogitsShape ==
    (EndedForward /\ Width(call.x_categ) = NumCateg) =>
        /\ outcome.status = "returned"
        /\ outcome.shape = <<Batch(call.x_categ), args.dim_out>>

\* C5: FTTransformer.forward fails with an assertion error whenever the last
\* dimension of x_categ differs from the configured number of categorical
\* columns, before any offset addition, embedding lookup or transformer
\* layer runs, and leaves the model as construction made it.
C5_WidthAssertion ==
    /\ (EndedForward /\ Width(call.x_categ) # NumCateg) =>
           /\ outcome = Raised("AssertionError")
           /\ trace = <<>>
           /\ dsu_call = NoDsuCall
           /\ self = InitAttributes(args)
    /\ (InFlight /\ call.fn = "FTTransformer") => Width(call.x_categ) = NumCateg

C5_Witness ==
    /\ EndedForward
    /\ NumCateg = 0 /\ Width(call.x_categ) = 1
    /\ outcome = Raised("AssertionError")

\* C6: when the attention stack is not requested, no layer's attention
\* matrix is appended to the collected sequence during the forward call.
C6_NoCollectionByDefault ==
    (InFlight /\ ~call.return_attn) => post_softmax_attns = <<>>

\* C6, amended: the attention stack is returned only on request.  A call
\* with return_attn false returns its result without the stack, a call with
\* return_attn true that returns, returns one matrix per layer; during the
\* call every layer's matrix is appended to the local list whatever the flag.
C6_StackReturnedOnRequest ==
    /\ (Ended /\ outcome.status = "returned") =>
           /\ outcome.has_attns = call.return_attn
           /\ ~call.return_attn => outcome.attns = <<>>
           /\ call.return_attn => Len(outcome.attns) = Len(self.layers)
    /\ pc = "attn" => Len(post_softmax_attns) = layer - 1
    /\ pc \in {"add", "ff", "dsu"} => Len(post_softmax_attns) = layer
    /\ pc \in {"ret", "head"} => Len(post_softmax_attns) = Len(self.layers)

C6_Witness ==
    /\ Ended /\ outcome.status = "returned"
    /\ ~call.return_attn /\ ~outcome.has_attns
    /\ \E k \in 1..Len(trace) : trace[k] = Ev("append", 2)

\* C7: in evaluation mode two calls of forward on identical inputs return
\* identical logits and identical attention stacks, and no random draw of the
\* regularizer or of dropout enters the result, whatever p, attn_dropout and
\* ff_dropout are.
C7_EvalDeterministic ==
    /\ (Ended /\ outcome.status = "returned" /\ prev.valid
            /\ ~prev.training /\ ~call.training) =>
           /\ outcome.value = prev.outcome.value
           /\ outcome.shape = prev.outcome.shape
           /\ (outcome.has_attns /\ prev.outcome.has_attns) =>
                  outcome.attns = prev.outcome.attns
    /\ (call.fn # "none" /\ ~call.training) =>
           /\ \A k \in 1..Len(x.hist) : x.hist[k].rnd = NoDraw
           /\ \A k \in 1..Len(outcome.value.hist) : outcome.value.hist[k].rnd = NoDraw
           /\ attn_out = NoDraw

C7_Witness ==
    /\ EndedForward /\ outcome.status = "returned" /\ outcome.has_attns
    /\ prev.valid /\ ~prev.training /\ ~call.training /\ prev.outcome.has_attns
    /\ args.p > 0 /\ args.attn_dropout > 0 /\ args.ff_dropout > 0
    /\ Len(self.layers) = 2

\* C8: the token sequence forward passes to the transformer has 1 + c + n
\* tokens per sample: the class token, then the categorical tokens in column
\* order, then the continuous tokens in column order; with c = 0 there is no
\* embedding table and no categorical embedding is performed, with n = 0 no
\* numerical embedding.
C8_TokenSequence ==
    LET c == NumCateg
        n == args.num_continuous
        did(op) == \E k \in 1..Len(trace) : trace[k].op = op
    IN  /\ (InFlight /\ call.fn = "FTTransformer") =>
               \A r \in 1..Batch(call.x_categ) :
                   /\ Batch(x.tok) = Batch(call.x_categ)
                   /\ Len(x.tok[r]) = 1 + c + n
                   /\ x.tok[r][1] = ClsToken
                   /\ \A i \in 1..c :
                          x.tok[r][1 + i] =
                              EmbedToken(call.x_categ[r][i] + self.categories_offset[i])
                   /\ \A j \in 1..n :
                          x.tok[r][1 + c + j] = NumToken(j, call.x_numer[r][j])
        /\ (Constructed /\ c = 0) =>
               /\ "categorical_embeds" \notin self.attrs
               /\ ~did("categorical_embeds") /\ ~did("offset")
        /\ (Constructed /\ n = 0) =>
               /\ "numerical_embedder" \notin self.attrs
               /\ ~did("numerical_embedder")

C8_Witness ==
    /\ pc = "attn" /\ call.fn = "FTTransformer"
    /\ NumCateg = 2 /\ args.num_continuous = 2
    /\ Batch(x.tok) = 2 /\ Width(x.tok) = 5
    /\ x.tok[1][3].idx # x.tok[2][3].idx

\* The steps of one layer of Transformer.forward, and of the first d layers.
LayerSteps(l) ==
    <<Ev("attn", l), Ev("append", l), Ev("add", l), Ev("ff", l), Ev("add", l),
      Ev("dsu", l)>>

RECURSIVE StackSteps(_)
StackSteps(d) == IF d = 0 THEN <<>> ELSE StackSteps(d - 1) \o LayerSteps(d)

IsLayerStep(e) == e.layer > 0

\* C9: Transformer.forward runs its depth layers in construction order, each
\* as attention, residual add, feed-forward, residual add, regularizer; each
\* layer's regularizer is invoked exactly once per forward call, and a
\* returned attention stack has depth entries, entry i computed by layer i.
C9_LayerOrder ==
    (Ended /\ (call.fn = "FTTransformer" => Width(call.x_categ) = NumCateg)) =>
        /\ SelectSeq(trace, IsLayerStep) = StackSteps(Len(self.layers))
        /\ outcome.has_attns =>
               /\ Len(outcome.attns) = Len(self.layers)
               /\ \A i \in 1..Len(outcome.attns) : outcome.attns[i].layer = i

====
